---- MODULE Spec2Model ----
(***************************************************************************)
(* Fabric defect detection front end: the App state container, the HTTP    *)
(* client and the presentation components, as one state machine.           *)
(*                                                                         *)
(* JavaScript values are encoded as follows.  null is the string NULL for  *)
(* the string-or-null fields (error, overlayPng) and for the tri-state     *)
(* isHealthy ("null" / "true" / "false"); meta, which is an object or      *)
(* null, is <<>> for null and <<m>> for the object m.  Thresholds are      *)
(* integers in hundredths (0.35 is 35).  Each handler runs to completion   *)
(* on the single UI thread, so one handler (or one continuation after an   *)
(* await) is one action; the setState calls of one continuation take       *)
(* effect together before the next event is dispatched.                    *)
(* A download (link.click()) is an output of the step that makes it:       *)
(* download holds the file of the last step, NoDownload after any other.   *)
(***************************************************************************)
EXTENDS Integers, Sequences, FiniteSets, TLC

VARIABLES
    variant,        \* which lib/api build is linked: "infer" or "predict"
    files,          \* useState<File[]>([])
    confThreshold,  \* useState(0.35), in hundredths
    iouThreshold,   \* useState(0.45), in hundredths
    nms,            \* useState(true)
    classFilter,    \* useState<string[]>([])
    models,         \* useState<ModelInfo[]>([])
    selectedModel,  \* useState<string>('ultra')
    isHealthy,      \* useState<boolean | null>(null)
    isLoading,      \* useState(false)
    error,          \* useState<string | null>(null)
    overlayPng,     \* useState<string | null>(null)
    detections,     \* useState<Detection[]>([])
    meta,           \* useState<any>(null)
    sortBy,         \* ResultsDisplay: useState<'score' | 'class'>('score')
    initPc,         \* position of the initialize() effect
    healthCalls,    \* number of GET /health requests issued
    modelsCalls,    \* number of GET /models requests issued
    inflight,       \* POSTs issued by runInference and not yet settled
    download        \* the file the step just taken handed to the browser

vars ==
    <<variant, files, confThreshold, iouThreshold, nms, classFilter, models,
      selectedModel, isHealthy, isLoading, error, overlayPng, detections, meta,
      sortBy, initPc, healthCalls, modelsCalls, inflight, download>>

----------------------------------------------------------------------------
(* Bounds of the model *)

\* longest file list the user builds
MaxFiles == 2

\* most files picked or dropped in one gesture
MaxBatch == 2

\* how many labels of the vocabulary the user toggles in the App session
MaxToggleClasses == 1

----------------------------------------------------------------------------
(* JavaScript values *)

NULL == "null"

Variants == {"infer", "predict"}

\* v || d on strings: the empty string is falsy
JsOr(v, d) == IF v = "" THEN d ELSE v

\* truthiness of a string-or-null state field
JsTruthy(v) == v # NULL /\ v # ""

\* !isHealthy for the tri-state flag
JsNot(h) == h # "true"

\* a JSON boolean stored into the tri-state flag
FromBool(b) == IF b THEN "true" ELSE "false"

RECURSIVE SeqToSet(_)
SeqToSet(s) == IF s = <<>> THEN {} ELSE {Head(s)} \cup SeqToSet(Tail(s))

\* Array.prototype.filter with the predicate "element # x"
RECURSIVE FilterOut(_, _)
FilterOut(s, x) ==
    IF s = <<>> THEN <<>>
    ELSE IF Head(s) = x THEN FilterOut(Tail(s), x)
         ELSE <<Head(s)>> \o FilterOut(Tail(s), x)

\* Array.prototype.filter((_, i) => i !== index), index counted from 0
RemoveAt(s, index) ==
    [k \in 1..(Len(s) - 1) |-> IF k <= index THEN s[k] ELSE s[k + 1]]

----------------------------------------------------------------------------
(* Files the user can pick *)

PngFile == [name |-> "a.png", type |-> "image/png"]

TxtFile == [name |-> "notes.txt", type |-> "text/plain"]

UserFiles == {PngFile, TxtFile}

\* file.type.startsWith('image/')
IsImage(f) == f.type \in {"image/png", "image/jpeg", "image/webp"}

RECURSIVE ImagesOf(_)
ImagesOf(s) ==
    IF s = <<>> THEN <<>>
    ELSE IF IsImage(Head(s)) THEN <<Head(s)>> \o ImagesOf(Tail(s))
         ELSE ImagesOf(Tail(s))

Batches == UNION {[1..n -> UserFiles] : n \in 0..MaxBatch}

----------------------------------------------------------------------------
(* Controls: the label vocabulary and the class toggle *)

FABRIC_CLASSES ==
    <<"hole", "stain", "weave_defect", "scratch", "foreign_fiber", "other">>

\* the labels the user toggles in the App session
SessionClasses == {FABRIC_CLASSES[i] : i \in 1..MaxToggleClasses}

\* values the two range inputs are moved to (min 0, max 1, step 0.01)
SliderValues == {35, 45}

\* handleClassToggle: the array handed to onClassFilterChange, always appending
ClassToggleAlwaysAdds(cf, className) == Append(cf, className)

\* handleClassToggle: the array handed to onClassFilterChange
ClassToggle(cf, className) ==
    IF className \in SeqToSet(cf)
    THEN FilterOut(cf, className)
    ELSE Append(cf, className)

----------------------------------------------------------------------------
(* The backend, seen from the client: what a call can settle with *)

ModelUltra == [id |-> "ultra", label |-> "Ultralytics YOLOv8"]

ModelHf == [id |-> "hf", label |-> "HuggingFace DETR"]

\* bodies of a 2xx GET /models
ModelsResponses ==
    {[available |-> <<ModelUltra, ModelHf>>, current |-> "hf"],
     [available |-> <<>>, current |-> "hf"]}

\* outcomes of GET /health: a 2xx body with model_loaded, or a failure
\* (non-2xx, network error, body that is not JSON)
HealthOutcomes ==
    {[ok |-> TRUE, model_loaded |-> TRUE],
     [ok |-> TRUE, model_loaded |-> FALSE],
     [ok |-> FALSE, model_loaded |-> FALSE]}

NoModels == [available |-> <<>>, current |-> ""]

ModelsOutcomes ==
    {[ok |-> TRUE, body |-> r] : r \in ModelsResponses}
        \cup {[ok |-> FALSE, body |-> NoModels]}

DetHole == [class |-> "hole", score |-> 90]

DetStain == [class |-> "stain", score |-> 95]

\* bodies of a 2xx POST: InferenceResult.  The client checks none of the
\* fields; ResultB reports kept = 2 with one detection listed, ResultC has an
\* empty overlay string.
ResultA ==
    [overlay_png |-> "iVBORw0A",
     detections |-> <<DetHole, DetStain>>,
     meta |-> [width |-> 640, height |-> 480, inference_ms |-> 12,
               kept |-> 2, discarded_below_threshold |-> 1]]

ResultB ==
    [overlay_png |-> "iVBORw0B",
     detections |-> <<DetStain>>,
     meta |-> [width |-> 800, height |-> 600, inference_ms |-> 20,
               kept |-> 2, discarded_below_threshold |-> 0]]

ResultC ==
    [overlay_png |-> "",
     detections |-> <<>>,
     meta |-> [width |-> 320, height |-> 240, inference_ms |-> 7,
               kept |-> 0, discarded_below_threshold |-> 3]]

\* a clean fabric: an overlay, no detection
ResultD ==
    [overlay_png |-> "iVBORw0D",
     detections |-> <<>>,
     meta |-> [width |-> 640, height |-> 480, inference_ms |-> 9,
               kept |-> 0, discarded_below_threshold |-> 0]]

InferenceResults == {ResultA, ResultB, ResultC, ResultD}

\* the "detail" member of a non-2xx JSON body: missing, '', [] or a text
DetailValues == {"undefined", "", "[]", "Model not loaded"}

\* kind: "ok" (2xx, JSON body), "ok_badjson" (2xx, body is not JSON),
\* "http" (non-2xx, JSON body with detail), "http_badjson" (non-2xx, body is
\* not JSON), "network" (fetch rejects)
InferenceOutcomes ==
    {[kind |-> "ok", result |-> r, detail |-> "undefined"] : r \in InferenceResults}
        \cup {[kind |-> "http", result |-> ResultC, detail |-> d] : d \in DetailValues}
        \cup {[kind |-> k, result |-> ResultC, detail |-> "undefined"] :
                k \in {"ok_badjson", "http_badjson", "network"}}

FailureOutcomes == {o \in InferenceOutcomes : o.kind # "ok"}

\* detail || 'Inference failed', then String(...) as new Error() does:
\* undefined and '' are falsy, [] is truthy and prints as ''
DetailMessage(d) ==
    IF d \in {"undefined", ""} THEN "Inference failed"
    ELSE IF d = "[]" THEN ""
    ELSE d

\* err.message of what runInference (or fetch, or response.json()) throws
ThrownMessage(v, o) ==
    IF o.kind = "network" THEN "Failed to fetch"
    ELSE IF o.kind = "ok_badjson" THEN "Unexpected token < in JSON"
    ELSE IF v = "predict" THEN "Inference failed: 500 INTERNAL SERVER ERROR"
    ELSE IF o.kind = "http_badjson" THEN "Unexpected token < in JSON"
    ELSE DetailMessage(o.detail)

----------------------------------------------------------------------------
(* Files handed to the browser.  A JSON text is the sequence of its tokens *)
(* (the white space of the pretty-printing left out).                      *)

NoDownload == [kind |-> "none", name |-> "", body |-> <<>>]

StrTok(str) == [t |-> "str", s |-> str, n |-> 0]

NumTok(num) == [t |-> "num", s |-> "", n |-> num]

NullTok == [t |-> "null", s |-> "", n |-> 0]

Punct(c) == [t |-> "punct", s |-> c, n |-> 0]

\* the token sequences of parts, separated by commas
RECURSIVE JoinTokens(_)
JoinTokens(parts) ==
    IF parts = <<>> THEN <<>>
    ELSE IF Len(parts) = 1 THEN parts[1]
    ELSE parts[1] \o <<Punct(",")>> \o JoinTokens(Tail(parts))

\* JSON.stringify of one Detection
StringifyDetection(d) ==
    <<Punct("{"), StrTok("class"), Punct(":"), StrTok(d.class), Punct(","),
      StrTok("score"), Punct(":"), NumTok(d.score), Punct("}")>>

\* JSON.stringify of the meta state: null, or the object
StringifyMeta(m) ==
    IF m = <<>> THEN <<NullTok>>
    ELSE <<Punct("{"),
           StrTok("width"), Punct(":"), NumTok(m[1].width), Punct(","),
           StrTok("height"), Punct(":"), NumTok(m[1].height), Punct(","),
           StrTok("inference_ms"), Punct(":"), NumTok(m[1].inference_ms), Punct(","),
           StrTok("kept"), Punct(":"), NumTok(m[1].kept), Punct(","),
           StrTok("discarded_below_threshold"), Punct(":"),
           NumTok(m[1].discarded_below_threshold),
           Punct("}")>>

\* an export that leaves the meta out
StringifyExportWithoutMeta(dets, m) ==
    <<Punct("{"), StrTok("detections"), Punct(":"), Punct("[")>>
        \o JoinTokens([k \in 1..Len(dets) |-> StringifyDetection(dets[k])])
        \o <<Punct("]"), Punct("}")>>

\* JSON.stringify({ detections, meta }, null, 2)
StringifyExport(dets, m) ==
    <<Punct("{"), StrTok("detections"), Punct(":"), Punct("[")>>
        \o JoinTokens([k \in 1..Len(dets) |-> StringifyDetection(dets[k])])
        \o <<Punct("]"), Punct(","), StrTok("meta"), Punct(":")>>
        \o StringifyMeta(m)
        \o <<Punct("}")>>

\* the object with the members read, a later member replacing an earlier one
ObjectOf(members) ==
    [key \in {members[j].key : j \in 1..Len(members)} |->
        LET last == CHOOSE j \in 1..Len(members) :
                        /\ members[j].key = key
                        /\ \A h \in (j + 1)..Len(members) : members[h].key # key
        IN  members[last].val]

\* JSON.parse by recursive descent: the value starting at token i and the
\* index after it.  kind tells null from an object, an array and a scalar.
RECURSIVE ParseValue(_, _), ParseElements(_, _, _), ParseMembers(_, _, _)
ParseValue(toks, i) ==
    LET tok == toks[i]
    IN  IF tok.t = "str" THEN [kind |-> "str", val |-> tok.s, next |-> i + 1]
        ELSE IF tok.t = "num" THEN [kind |-> "num", val |-> tok.n, next |-> i + 1]
        ELSE IF tok.t = "null" THEN [kind |-> "null", val |-> <<>>, next |-> i + 1]
        ELSE IF tok.s = "["
        THEN IF toks[i + 1] = Punct("]")
             THEN [kind |-> "arr", val |-> <<>>, next |-> i + 2]
             ELSE ParseElements(toks, i + 1, <<>>)
        ELSE IF toks[i + 1] = Punct("}")
             THEN [kind |-> "obj", val |-> <<>>, next |-> i + 2]
             ELSE ParseMembers(toks, i + 1, <<>>)

\* the elements of an array from token i on, up to its "]"
ParseElements(toks, i, acc) ==
    LET el == ParseValue(toks, i)
        got == Append(acc, el.val)
    IN  IF toks[el.next] = Punct(",")
        THEN ParseElements(toks, el.next + 1, got)
        ELSE [kind |-> "arr", val |-> got, next |-> el.next + 1]

\* the members of an object from token i on, up to its "}"
ParseMembers(toks, i, acc) ==
    LET el == ParseValue(toks, i + 2)
        got == Append(acc, [key |-> toks[i].s, val |-> el.val])
    IN  IF toks[el.next] = Punct(",")
        THEN ParseMembers(toks, el.next + 1, got)
        ELSE [kind |-> "obj", val |-> ObjectOf(got), next |-> el.next + 1]

\* JSON.parse(text)
ParseJson(toks) == ParseValue(toks, 1)

----------------------------------------------------------------------------
(* lib/api: runInference *)

\* files[0] replaced by the last queued file
LastFile(fs) == fs[Len(fs)]

\* files[0], the first argument handleRunDetection passes to runInference
FirstFile(fs) == fs[1]

\* the multipart form the POST carries.  The "infer" build appends the tuning
\* parameters and, when the filter is not empty, class_filter; the "predict"
\* build appends the file alone.
RunInferenceRequest(v, file, modelId, conf, iou, nmsOn, cf) ==
    IF v = "infer"
    THEN [url |-> "/infer", file |-> file, model_id |-> modelId,
          conf_threshold |-> conf, iou_threshold |-> iou, nms |-> nmsOn,
          has_class_filter |-> Len(cf) > 0, class_filter |-> cf]
    ELSE [url |-> "/predict", file |-> file]

----------------------------------------------------------------------------
(* App: state after construction *)

Init ==
    /\ variant \in Variants
    /\ files = <<>>
    /\ confThreshold = 35
    /\ iouThreshold = 45
    /\ nms = TRUE
    /\ classFilter = <<>>
    /\ models = <<>>
    /\ selectedModel = "ultra"
    /\ isHealthy = NULL
    /\ isLoading = FALSE
    /\ error = NULL
    /\ overlayPng = NULL
    /\ detections = <<>>
    /\ meta = <<>>
    /\ sortBy = "score"
    /\ initPc = "mount"
    /\ healthCalls = 0
    /\ modelsCalls = 0
    /\ inflight = <<>>
    /\ download = NoDownload

----------------------------------------------------------------------------
(* App: the Run Detection button *)

\* disabled={files.length === 0 || !isHealthy}: the busy flag left out
RunButtonDisabledIgnoresLoading == Len(files) = 0 \/ JsNot(isHealthy)

\* disabled={isLoading || files.length === 0}: the health flag left out
RunButtonDisabledIgnoresHealth == isLoading \/ Len(files) = 0

\* disabled={isLoading || files.length === 0 || !isHealthy}
RunButtonDisabled == isLoading \/ Len(files) = 0 \/ JsNot(isHealthy)

\* disabled={isLoading} handed to FileUploader and to Controls
InputsDisabled == isLoading

----------------------------------------------------------------------------
(* App: the initialize() effect, run once after mount *)

\* catch that only logs
InitializeCatchOnlyLogs == UNCHANGED isHealthy

\* catch (err) { console.error(...); setIsHealthy(false); }
InitializeCatch == isHealthy' = "false"

\* useEffect(() => { initialize(); }, []): checkHealth() is called
InitializeStart ==
    /\ initPc = "mount"
    /\ initPc' = "health"
    /\ healthCalls' = healthCalls + 1
    /\ download' = NoDownload
    /\ UNCHANGED <<variant, files, confThreshold, iouThreshold, nms, classFilter,
                   models, selectedModel, isHealthy, isLoading, error, overlayPng,
                   detections, meta, sortBy, modelsCalls, inflight>>

\* await checkHealth() settles: setIsHealthy(health.model_loaded) and
\* getModels() is called, or the catch runs
CheckHealthSettles ==
    /\ initPc = "health"
    /\ \E o \in HealthOutcomes :
        IF o.ok
        THEN /\ isHealthy' = FromBool(o.model_loaded)
             /\ modelsCalls' = modelsCalls + 1
             /\ initPc' = "models"
        ELSE /\ InitializeCatch
             /\ initPc' = "failed"
             /\ UNCHANGED modelsCalls
    /\ download' = NoDownload
    /\ UNCHANGED <<variant, files, confThreshold, iouThreshold, nms, classFilter,
                   models, selectedModel, isLoading, error, overlayPng,
                   detections, meta, sortBy, healthCalls, inflight>>

\* await getModels() settles: setModels, setSelectedModel, or the catch runs
GetModelsSettles ==
    /\ initPc = "models"
    /\ \E o \in ModelsOutcomes :
        IF o.ok
        THEN /\ models' = o.body.available
             /\ selectedModel' = o.body.current
             /\ initPc' = "done"
             /\ UNCHANGED isHealthy
        ELSE /\ InitializeCatch
             /\ initPc' = "failed"
             /\ UNCHANGED <<models, selectedModel>>
    /\ download' = NoDownload
    /\ UNCHANGED <<variant, files, confThreshold, iouThreshold, nms, classFilter,
                   isLoading, error, overlayPng, detections, meta, sortBy,
                   healthCalls, modelsCalls, inflight>>

----------------------------------------------------------------------------
(* App and FileUploader: the file list *)

\* handleFilesSelected that replaces the list: setFiles(newFiles)
HandleFilesSelectedReplaces(newFiles) ==
    /\ files' = newFiles
    /\ error' = NULL

\* handleFilesSelected: setFiles([...files, ...newFiles]); setError(null)
HandleFilesSelected(newFiles) ==
    /\ files' = files \o newFiles
    /\ error' = NULL

\* FileUploader.handleDrop: ignored when disabled, keeps the image/* files and
\* reports them when there is at least one
HandleDrop ==
    /\ ~InputsDisabled
    /\ \E dropped \in Batches :
        /\ Len(files) + Len(dropped) <= MaxFiles
        /\ IF Len(ImagesOf(dropped)) > 0
           THEN HandleFilesSelected(ImagesOf(dropped))
           ELSE UNCHANGED <<files, error>>
    /\ download' = NoDownload
    /\ UNCHANGED <<variant, confThreshold, iouThreshold, nms, classFilter, models,
                   selectedModel, isHealthy, isLoading, overlayPng, detections,
                   meta, sortBy, initPc, healthCalls, modelsCalls, inflight>>

\* FileUploader.handleFileInput: the hidden input (disabled with the
\* uploader) reports whatever was picked, unfiltered
HandleFileInput ==
    /\ ~InputsDisabled
    /\ \E picked \in Batches :
        /\ Len(files) + Len(picked) <= MaxFiles
        /\ HandleFilesSelected(picked)
    /\ download' = NoDownload
    /\ UNCHANGED <<variant, confThreshold, iouThreshold, nms, classFilter, models,
                   selectedModel, isHealthy, isLoading, overlayPng, detections,
                   meta, sortBy, initPc, healthCalls, modelsCalls, inflight>>

\* ImagePreview remove button -> handleRemoveFile(index); the preview takes no
\* disabled prop
HandleRemoveFile ==
    /\ \E index \in 0..(Len(files) - 1) :
        files' = RemoveAt(files, index)
    /\ download' = NoDownload
    /\ UNCHANGED <<variant, confThreshold, iouThreshold, nms, classFilter, models,
                   selectedModel, isHealthy, isLoading, error, overlayPng,
                   detections, meta, sortBy, initPc, healthCalls, modelsCalls,
                   inflight>>

----------------------------------------------------------------------------
(* Controls and the model select *)

\* confidence range input: onConfChange(parseFloat(e.target.value))
HandleConfChange ==
    /\ ~InputsDisabled
    /\ \E v \in SliderValues : confThreshold' = v
    /\ download' = NoDownload
    /\ UNCHANGED <<variant, files, iouThreshold, nms, classFilter, models,
                   selectedModel, isHealthy, isLoading, error, overlayPng,
                   detections, meta, sortBy, initPc, healthCalls, modelsCalls,
                   inflight>>

\* IoU range input: onIouChange(parseFloat(e.target.value))
HandleIouChange ==
    /\ ~InputsDisabled
    /\ \E v \in SliderValues : iouThreshold' = v
    /\ download' = NoDownload
    /\ UNCHANGED <<variant, files, confThreshold, nms, classFilter, models,
                   selectedModel, isHealthy, isLoading, error, overlayPng,
                   detections, meta, sortBy, initPc, healthCalls, modelsCalls,
                   inflight>>

\* NMS checkbox: onNmsChange(e.target.checked)
HandleNmsChange ==
    /\ ~InputsDisabled
    /\ nms' = ~nms
    /\ download' = NoDownload
    /\ UNCHANGED <<variant, files, confThreshold, iouThreshold, classFilter,
                   models, selectedModel, isHealthy, isLoading, error, overlayPng,
                   detections, meta, sortBy, initPc, healthCalls, modelsCalls,
                   inflight>>

\* class checkbox: handleClassToggle(className)
HandleClassToggle ==
    /\ ~InputsDisabled
    /\ \E className \in SessionClasses :
        classFilter' = ClassToggle(classFilter, className)
    /\ download' = NoDownload
    /\ UNCHANGED <<variant, files, confThreshold, iouThreshold, nms, models,
                   selectedModel, isHealthy, isLoading, error, overlayPng,
                   detections, meta, sortBy, initPc, healthCalls, modelsCalls,
                   inflight>>

\* the header <select>, rendered when models.length > 0, one option per
\* model; it carries no disabled attribute
HandleModelSelect ==
    /\ Len(models) > 0
    /\ \E k \in 1..Len(models) : selectedModel' = models[k].id
    /\ download' = NoDownload
    /\ UNCHANGED <<variant, files, confThreshold, iouThreshold, nms, classFilter,
                   models, isHealthy, isLoading, error, overlayPng, detections,
                   meta, sortBy, initPc, healthCalls, modelsCalls, inflight>>

----------------------------------------------------------------------------
(* App: handleRunDetection *)

\* try branch that stores the overlay and the detections but not the meta
InferenceSuccessDropsMeta(result) ==
    /\ overlayPng' = result.overlay_png
    /\ detections' = result.detections
    /\ UNCHANGED <<meta, error>>

\* setOverlayPng(result.overlay_png); setDetections(result.detections);
\* setMeta(result.meta)
InferenceSuccess(result) ==
    /\ overlayPng' = result.overlay_png
    /\ detections' = result.detections
    /\ meta' = <<result.meta>>
    /\ UNCHANGED error

\* catch that also clears the previous overlay
InferenceCatchClearsOverlay(message) ==
    /\ error' = JsOr(message, "Inference failed")
    /\ overlayPng' = NULL
    /\ UNCHANGED <<detections, meta>>

\* catch (err) { setError(err.message || 'Inference failed'); }
InferenceCatch(message) ==
    /\ error' = JsOr(message, "Inference failed")
    /\ UNCHANGED <<overlayPng, detections, meta>>

\* the busy flag cleared after a failure only
InferenceFinallyOnFailureOnly == isLoading' = (error' = NULL)

\* the busy flag cleared after a success only
InferenceFinallyOnSuccessOnly == isLoading' = (error' # NULL)

\* finally { setIsLoading(false); }
InferenceFinally == isLoading' = FALSE

\* click on Run Detection (a disabled button dispatches no click): up to the
\* await of runInference
HandleRunDetection ==
    /\ ~RunButtonDisabled
    /\ IF Len(files) = 0
       THEN /\ error' = "Please upload at least one image"
            /\ UNCHANGED <<isLoading, inflight>>
       ELSE /\ isLoading' = TRUE
            /\ error' = NULL
            /\ inflight' = Append(inflight,
                    RunInferenceRequest(variant, FirstFile(files), selectedModel,
                        confThreshold, iouThreshold, nms, classFilter))
    /\ download' = NoDownload
    /\ UNCHANGED <<variant, files, confThreshold, iouThreshold, nms, classFilter,
                   models, selectedModel, isHealthy, overlayPng, detections, meta,
                   sortBy, initPc, healthCalls, modelsCalls>>

\* the awaited runInference settles with outcome o: the rest of the try, or
\* the catch, then the finally
RunInferenceSettlesWith(i, o) ==
    /\ inflight' = RemoveAt(inflight, i - 1)
    /\ IF o.kind = "ok"
       THEN InferenceSuccess(o.result)
       ELSE InferenceCatch(ThrownMessage(variant, o))
    /\ InferenceFinally
    /\ download' = NoDownload
    /\ UNCHANGED <<variant, files, confThreshold, iouThreshold, nms, classFilter,
                   models, selectedModel, isHealthy, sortBy, initPc, healthCalls,
                   modelsCalls>>

RunInferenceSettles ==
    \E i \in 1..Len(inflight) : \E o \in InferenceOutcomes :
        RunInferenceSettlesWith(i, o)

----------------------------------------------------------------------------
(* ResultsDisplay *)

\* a.class.localeCompare(b.class) orders the labels alphabetically
ClassRank(c) ==
    CASE c = "foreign_fiber" -> 1
      [] c = "hole" -> 2
      [] c = "other" -> 3
      [] c = "scratch" -> 4
      [] c = "stain" -> 5
      [] c = "weave_defect" -> 6

\* the comparator of the sort: negative when a goes before b
Compare(a, b, by) ==
    IF by = "score" THEN b.score - a.score
    ELSE ClassRank(a.class) - ClassRank(b.class)

\* stable insertion of x: before the first element it must precede
RECURSIVE InsertSorted(_, _, _)
InsertSorted(x, s, by) ==
    IF s = <<>> THEN <<x>>
    ELSE IF Compare(x, Head(s), by) < 0 THEN <<x>> \o s
         ELSE <<Head(s)>> \o InsertSorted(x, Tail(s), by)

RECURSIVE SortFrom(_, _, _)
SortFrom(done, rest, by) ==
    IF rest = <<>> THEN done
    ELSE SortFrom(InsertSorted(Head(rest), done, by), Tail(rest), by)

\* a sorted list that loses the lowest entry
SortedDetectionsDropsLast(dets, by) ==
    LET all == SortFrom(<<>>, dets, by)
    IN  SubSeq(all, 1, Len(all) - 1)

\* [...detections].sort(...): Array.prototype.sort is stable
SortedDetections(dets, by) == SortFrom(<<>>, dets, by)

\* what ResultsDisplay renders: <<>> for "return null", else the metrics
\* grid, the overlay image and the All Detections list
ResultsView ==
    IF ~JsTruthy(overlayPng) \/ meta = <<>>
    THEN <<>>
    ELSE <<[inference_ms |-> meta[1].inference_ms,
            kept |-> meta[1].kept,
            discarded_below_threshold |-> meta[1].discarded_below_threshold,
            width |-> meta[1].width,
            height |-> meta[1].height,
            image |-> overlayPng,
            list |-> SortedDetections(detections, sortBy)]>>

\* the sort <select> of the results view
HandleSortChange ==
    /\ ResultsView # <<>>
    /\ sortBy' = IF sortBy = "score" THEN "class" ELSE "score"
    /\ download' = NoDownload
    /\ UNCHANGED <<variant, files, confThreshold, iouThreshold, nms, classFilter,
                   models, selectedModel, isHealthy, isLoading, error, overlayPng,
                   detections, meta, initPc, healthCalls, modelsCalls, inflight>>

----------------------------------------------------------------------------
(* App: the two export handlers, bound to the buttons of the results view *)

\* handleDownloadPng: nothing without an overlay, else a link to the data
\* URL of the overlay is clicked
HandleDownloadPng ==
    /\ ResultsView # <<>>
    /\ download' =
            IF ~JsTruthy(overlayPng) THEN NoDownload
            ELSE [kind |-> "png", name |-> "fabric-defects-<Date.now()>.png",
                  body |-> <<StrTok(overlayPng)>>]
    /\ UNCHANGED <<variant, files, confThreshold, iouThreshold, nms, classFilter,
                   models, selectedModel, isHealthy, isLoading, error, overlayPng,
                   detections, meta, sortBy, initPc, healthCalls, modelsCalls,
                   inflight>>

\* what handleDownloadJson hands to the browser: nothing when detections is
\* empty, else a Blob of JSON.stringify({ detections, meta }, null, 2)
DownloadJsonFile ==
    IF Len(detections) = 0 THEN NoDownload
    ELSE [kind |-> "json", name |-> "fabric-defects-<Date.now()>.json",
          body |-> StringifyExport(detections, meta)]

\* handleDownloadJson: click on Download JSON
HandleDownloadJson ==
    /\ ResultsView # <<>>
    /\ download' = DownloadJsonFile
    /\ UNCHANGED <<variant, files, confThreshold, iouThreshold, nms, classFilter,
                   models, selectedModel, isHealthy, isLoading, error, overlayPng,
                   detections, meta, sortBy, initPc, healthCalls, modelsCalls,
                   inflight>>

----------------------------------------------------------------------------
(* The session *)

\* what the user can do
UserAction ==
    \/ HandleDrop
    \/ HandleFileInput
    \/ HandleRemoveFile
    \/ HandleConfChange
    \/ HandleIouChange
    \/ HandleNmsChange
    \/ HandleClassToggle
    \/ HandleModelSelect
    \/ HandleSortChange
    \/ HandleDownloadPng
    \/ HandleDownloadJson
    \/ HandleRunDetection

Next ==
    \/ InitializeStart
    \/ CheckHealthSettles
    \/ GetModelsSettles
    \/ HandleDrop
    \/ HandleFileInput
    \/ HandleRemoveFile
    \/ HandleConfChange
    \/ HandleIouChange
    \/ HandleNmsChange
    \/ HandleClassToggle
    \/ HandleModelSelect
    \/ HandleSortChange
    \/ HandleDownloadPng
    \/ HandleDownloadJson
    \/ HandleRunDetection
    \/ RunInferenceSettles

Spec == Init /\ [][Next]_vars

\* the session in which every backend call of runInference completes: the
\* promise settles and the event loop then runs the continuation
FairSpec == Spec /\ WF_vars(RunInferenceSettles)

----------------------------------------------------------------------------
(* The Controls component on its own: the class checkboxes, all six labels *)

ControlsClassToggle ==
    /\ \E k \in 1..Len(FABRIC_CLASSES) :
        classFilter' = ClassToggle(classFilter, FABRIC_CLASSES[k])
    /\ download' = NoDownload
    /\ UNCHANGED <<variant, files, confThreshold, iouThreshold, nms, models,
                   selectedModel, isHealthy, isLoading, error, overlayPng,
                   detections, meta, sortBy, initPc, healthCalls, modelsCalls,
                   inflight>>

ToggleNext == ControlsClassToggle

ToggleSpec == Init /\ [][ToggleNext]_vars

----------------------------------------------------------------------------
(* Properties *)

ResultTriple == <<overlayPng, detections, meta>>

TripleOf(r) == <<r.overlay_png, r.detections, <<r.meta>>>>

OkOutcome(r) == [kind |-> "ok", result |-> r, detail |-> "undefined"]

Count(s, x) == Cardinality({k \in 1..Len(s) : s[k] = x})

\* C1: in every reachable state at most one inference request is
\* outstanding, and an outstanding request means the busy flag is set.
C1_AtMostOneInFlight ==
    /\ Len(inflight) <= 1
    /\ Len(inflight) = 1 => isLoading

\* a second request is outstanding while the result of an earlier one is shown
C1_Witness ==
    /\ Len(inflight) = 1
    /\ overlayPng = ResultA.overlay_png
    /\ Len(files) = 0

\* C2: the Run Detection trigger can fire exactly when the file list is not
\* empty, no request is in flight and the health flag is healthy; an empty
\* list, a request in flight or a health flag that is unknown or false each
\* disable it.
C2_TriggerEnabledIff ==
    (ENABLED HandleRunDetection)
        <=> (Len(files) > 0 /\ ~isLoading /\ isHealthy = "true")

\* the trigger is enabled again after a failed run; elsewhere it is disabled
C2_Witness ==
    /\ Len(files) > 0
    /\ ~isLoading
    /\ isHealthy = "true"
    /\ JsTruthy(error)

\* C3: a trigger with a non-empty file list issues exactly one POST, with the
\* file at index 0 of the list attached and the earlier requests untouched;
\* no other step issues a POST or changes a request already issued.
C3_OnePostFirstFile ==
    [][ /\ (HandleRunDetection /\ Len(files) > 0) =>
              /\ Len(inflight') = Len(inflight) + 1
              /\ SubSeq(inflight', 1, Len(inflight)) = inflight
              /\ inflight'[Len(inflight')].file = files[1]
        /\ ~HandleRunDetection =>
              /\ Len(inflight') <= Len(inflight)
              /\ \A k \in 1..Len(inflight') :
                    \E j \in 1..Len(inflight) : inflight'[k] = inflight[j]
      ]_vars

\* two different files are queued and the one in flight is the first
C3_Witness ==
    /\ Len(inflight) = 1
    /\ Len(files) = 2
    /\ files[1] # files[2]
    /\ inflight[1].file = files[1]

\* C4: the step that handles a failed inference request (non-2xx, network
\* error, unreadable body) sets a non-empty error message and leaves
\* overlayPng, detections and meta as they are; and no step taken while the
\* request is in flight changes them either, so they are the values from
\* before the trigger.
C4_FailureKeepsResults ==
    [][ /\ (\E i \in 1..Len(inflight) : \E o \in FailureOutcomes :
                RunInferenceSettlesWith(i, o)) =>
              /\ JsTruthy(error')
              /\ ResultTriple' = ResultTriple
        /\ (isLoading /\ ~RunInferenceSettles) => ResultTriple' = ResultTriple
      ]_vars

\* a run failed after an earlier run had succeeded: the earlier result stays
C4_Witness ==
    /\ ~isLoading
    /\ JsTruthy(error)
    /\ ResultTriple = TripleOf(ResultA)

\* C5: the result triple is the initial (null, [], null) or the three fields
\* of one successful response.
C5_ResultTripleWhole ==
    \/ ResultTriple = <<NULL, <<>>, <<>>>>
    \/ \E r \in InferenceResults : ResultTriple = TripleOf(r)

\* the result of one response is held while the next request is in flight
C5_Witness ==
    /\ ResultTriple = TripleOf(ResultB)
    /\ isLoading

\* an error has occurred: startup failed, or an error message is set
ErrorOccurred == initPc = "failed" \/ error # NULL

\* the health flag has been set to false (by the catch of initialize, or from
\* a health response with model_loaded false)
StuckDisabled == isHealthy = "false"

\* C6 as claimed: in every state in which an error has occurred the trigger
\* can still become enabled, so the state is not one from which it stays
\* disabled whatever happens.
C6_AlwaysRecoverable == ErrorOccurred => ~StuckDisabled

\* C6 amended: with an error message set and the health flag healthy, the
\* trigger is enabled at once or after one file selection; once the health
\* flag is false it stays false and the trigger stays disabled.
C6_RecoverableWhenHealthy ==
    /\ [](  (error # NULL /\ ~JsNot(isHealthy)) =>
              \/ ~RunButtonDisabled
              \/ ENABLED (HandleFileInput /\ ~RunButtonDisabled') )
    /\ [][ StuckDisabled => (StuckDisabled' /\ RunButtonDisabled') ]_vars

\* a run failed after its file was removed: one selection re-enables the trigger
C6_Witness ==
    /\ JsTruthy(error)
    /\ isHealthy = "true"
    /\ Len(files) = 0

\* C7: after a failed startup the health flag is "false", the model list is
\* empty and the selected model is the initial 'ultra'; and GET /health and
\* GET /models are each issued at most once.
C7_StartupFailure ==
    /\ initPc = "failed" =>
          /\ isHealthy = "false"
          /\ models = <<>>
          /\ selectedModel = "ultra"
    /\ healthCalls <= 1
    /\ modelsCalls <= 1

\* the health check succeeded, the model listing failed, a run had started
C7_Witness ==
    /\ initPc = "failed"
    /\ healthCalls = 1
    /\ modelsCalls = 1
    /\ JsTruthy(overlayPng)

\* C8: while a request is in flight no user action changes confThreshold,
\* iouThreshold, nms, classFilter, the selected model or the file list.
C8_ControlsFrozenInFlight ==
    [][ (isLoading /\ UserAction) =>
            UNCHANGED <<confThreshold, iouThreshold, nms, classFilter,
                        selectedModel, files>> ]_vars

\* C9: for every label of the vocabulary, toggling it twice in succession
\* gives a class filter with the same contents (the same set of labels) as
\* before.
C9_ToggleTwice ==
    \A k \in 1..Len(FABRIC_CLASSES) :
        SeqToSet(ClassToggle(ClassToggle(classFilter, FABRIC_CLASSES[k]),
                             FABRIC_CLASSES[k]))
            = SeqToSet(classFilter)

\* a selected label toggled twice moves to the end: same contents, new order
C9_Witness ==
    \E k \in 1..Len(FABRIC_CLASSES) :
        /\ FABRIC_CLASSES[k] \in SeqToSet(classFilter)
        /\ ClassToggle(ClassToggle(classFilter, FABRIC_CLASSES[k]),
                       FABRIC_CLASSES[k]) # classFilter

\* the metrics grid of the view shows the fields of m
ShowsMeta(view, m) ==
    /\ view.inference_ms = m.inference_ms
    /\ view.kept = m.kept
    /\ view.discarded_below_threshold = m.discarded_below_threshold
    /\ view.width = m.width
    /\ view.height = m.height

\* C10 as claimed: after every successful response the view shows that
\* response's meta and a list of meta.kept entries.
C10_ListLengthIsKept ==
    [][ \A r \in InferenceResults :
          (\E i \in 1..Len(inflight) : RunInferenceSettlesWith(i, OkOutcome(r))) =>
              /\ ResultsView' # <<>>
              /\ ShowsMeta(ResultsView'[1], r.meta)
              /\ Len(ResultsView'[1].list) = r.meta.kept
      ]_vars

\* C10 amended: after a successful response whose overlay_png is not empty
\* the view shows that response's meta verbatim, its overlay, and a list
\* holding exactly the response's detections (one entry each, in the chosen
\* order); with an empty overlay_png nothing is rendered.
C10_ViewShowsResponse ==
    [][ \A r \in InferenceResults :
          (\E i \in 1..Len(inflight) : RunInferenceSettlesWith(i, OkOutcome(r))) =>
              IF r.overlay_png = ""
              THEN ResultsView' = <<>>
              ELSE /\ ResultsView' # <<>>
                   /\ ShowsMeta(ResultsView'[1], r.meta)
                   /\ ResultsView'[1].image = r.overlay_png
                   /\ Len(ResultsView'[1].list) = Len(r.detections)
                   /\ \A k \in 1..Len(r.detections) :
                        Count(ResultsView'[1].list, r.detections[k])
                            = Count(r.detections, r.detections[k])
      ]_vars

\* a response is shown whose list has fewer entries than its meta.kept
C10_Witness ==
    /\ ResultsView # <<>>
    /\ meta = <<ResultB.meta>>
    /\ Len(ResultsView[1].list) = 1
    /\ ResultsView[1].kept = 2

\* what JSON.parse of the export must give for the state: the detections
\* and the meta object (null is <<>>)
StateExport == [detections |-> detections,
                meta |-> IF meta = <<>> THEN <<>> ELSE meta[1]]

\* C11 as claimed: in every state where a result is displayed, the Download
\* JSON button produces a JSON file whose parse is the detections and the
\* meta of the state, and issues no request.
C11_ExportWheneverDisplayed ==
    ResultsView # <<>> =>
        /\ ENABLED ( /\ HandleDownloadJson
                     /\ UNCHANGED <<inflight, healthCalls, modelsCalls>> )
        /\ DownloadJsonFile.kind = "json"
        /\ ParseJson(DownloadJsonFile.body).val = StateExport

\* the part of C11 that holds: every JSON file the export does produce
\* parses to the detections and the meta of the state it was made in, and
\* the step that makes it (or the PNG) issues no request.
ExportRoundTrips ==
    [][ /\ (HandleDownloadJson /\ download'.kind = "json") =>
              ParseJson(download'.body).val = StateExport
        /\ (HandleDownloadJson \/ HandleDownloadPng) =>
              UNCHANGED <<inflight, healthCalls, modelsCalls>>
      ]_vars

\* a JSON export of a two-detection result has been made
ExportMade ==
    /\ download.kind = "json"
    /\ Len(detections) = 2

\* C13: the busy flag is set exactly while a request is outstanding, it is
\* set by a trigger only, the step that handles the settled call (2xx,
\* non-2xx or network error alike) clears it, and so, the backend call
\* completing, a set flag is always cleared again.
C13_LoadingClears ==
    /\ [](isLoading <=> Len(inflight) > 0)
    /\ [][ /\ (~isLoading /\ isLoading') => HandleRunDetection
           /\ RunInferenceSettles => ~isLoading'
         ]_vars
    /\ (isLoading ~> ~isLoading)

\* a network error was handled and the flag is clear again
C13_Witness ==
    /\ ~isLoading
    /\ inflight = <<>>
    /\ error = "Failed to fetch"

\* new is old followed by batch, nothing dropped or reordered
AppendedTo(old, new, batch) ==
    /\ Len(new) = Len(old) + Len(batch)
    /\ \A k \in 1..Len(old) : new[k] = old[k]
    /\ \A k \in 1..Len(batch) : new[Len(old) + k] = batch[k]

\* new is old without the item at index i (from 0), the rest in order
RemovedFrom(old, new, i) ==
    /\ Len(new) = Len(old) - 1
    /\ \A k \in 1..i : new[k] = old[k]
    /\ \A k \in (i + 1)..Len(new) : new[k] = old[k + 1]

====
